---- MODULE Spec2Model ----
(***************************************************************************)
(* Model of the mpstat post-processing pipeline of pmpstat.py              *)
(* (convert_to_csv, remove_cpu_rows, sort_cpu_data, process_file, run in   *)
(* that order on one output path) and of the chart reader of pic.py        *)
(* (generate_cpu_usage_graph).                                             *)
(*                                                                         *)
(* A token (a CSV field, a whitespace-separated word of the log) is a      *)
(* sequence of one-character strings, so that isdigit, startswith, strip,  *)
(* int(), float(), strptime and str() are computed on the characters.      *)
(* A line of the log is the sequence of its tokens (line.split()); a file  *)
(* at the output path is the sequence of its CSV rows.                     *)
(***************************************************************************)
EXTENDS Integers, Sequences, FiniteSets, TLC

VARIABLES log, csv, pc, exit_code, prev, plots

vars == <<log, csv, pc, exit_code, prev, plots>>

(* ---------------------------------------------------------------- bounds *)
MaxLines == 3
MaxNormRows == 3
MaxTableRows == 4

(* ------------------------------------------------------- character level *)
Digits == {"0", "1", "2", "3", "4", "5", "6", "7", "8", "9"}

DigitVal(c) ==
    CASE c = "0" -> 0 [] c = "1" -> 1 [] c = "2" -> 2 [] c = "3" -> 3
      [] c = "4" -> 4 [] c = "5" -> 5 [] c = "6" -> 6 [] c = "7" -> 7
      [] c = "8" -> 8 [] c = "9" -> 9

DigitChar(d) ==
    CASE d = 0 -> "0" [] d = 1 -> "1" [] d = 2 -> "2" [] d = 3 -> "3"
      [] d = 4 -> "4" [] d = 5 -> "5" [] d = 6 -> "6" [] d = 7 -> "7"
      [] d = 8 -> "8" [] d = 9 -> "9"

IsDigitStr(s) == Len(s) > 0 /\ \A i \in 1..Len(s) : s[i] \in Digits

RECURSIVE DecValue(_)
DecValue(s) ==
    IF s = <<>> THEN 0
    ELSE DecValue(SubSeq(s, 1, Len(s) - 1)) * 10 + DigitVal(s[Len(s)])

RECURSIVE NatToStr(_)
NatToStr(n) ==
    IF n < 10 THEN <<DigitChar(n)>>
    ELSE NatToStr(n \div 10) \o <<DigitChar(n % 10)>>

(* str(int(x)) of an integer-valued x *)
IntToStr(n) == IF n < 0 THEN <<"-">> \o NatToStr(0 - n) ELSE NatToStr(n)

(* the value csv.DictReader gives a missing field (restval=None) *)
None == <<"None">>

(* int(v): optional sign and decimal digits; anything else, None included, *)
(* raises (ok = FALSE)                                                     *)
PyInt(v) ==
    LET signed == Len(v) > 0 /\ v[1] \in {"-", "+"}
        body == IF signed THEN Tail(v) ELSE v
    IN  IF IsDigitStr(body)
        THEN [ok |-> TRUE,
              val |-> IF signed /\ v[1] = "-" THEN 0 - DecValue(body)
                      ELSE DecValue(body)]
        ELSE [ok |-> FALSE, val |-> 0]

(* float(v) of a plain decimal: the digits as an integer and the number of *)
(* digits after the point                                                  *)
PyFloat(v) ==
    LET pts == {i \in 1..Len(v) : v[i] = "."}
        p == IF pts = {} THEN Len(v) + 1 ELSE CHOOSE i \in pts : TRUE
        ds == SubSeq(v, 1, p - 1) \o SubSeq(v, p + 1, Len(v))
    IN  IF Cardinality(pts) <= 1 /\ IsDigitStr(ds)
        THEN [ok |-> TRUE, mant |-> DecValue(ds),
              frac |-> IF pts = {} THEN 0 ELSE Len(v) - p]
        ELSE [ok |-> FALSE, mant |-> 0, frac |-> 0]

RECURSIVE Strip(_)
Strip(s) ==
    IF s = <<>> THEN s
    ELSE IF s[1] = " " THEN Strip(Tail(s))
    ELSE IF s[Len(s)] = " " THEN Strip(SubSeq(s, 1, Len(s) - 1))
    ELSE s

RECURSIVE SplitOn(_, _)
SplitOn(s, sep) ==
    LET hits == {i \in 1..Len(s) : s[i] = sep}
    IN  IF hits = {} THEN <<s>>
        ELSE LET i == CHOOSE j \in hits : \A k \in hits : j <= k
             IN  <<SubSeq(s, 1, i - 1)>> \o SplitOn(SubSeq(s, i + 1, Len(s)), sep)

(* datetime.strptime(v, '%H:%M:%S'), as seconds since midnight *)
strptime(v) ==
    LET parts == SplitOn(v, ":")
        fieldOk(p) == IsDigitStr(p) /\ Len(p) <= 2
    IN  IF Len(parts) = 3 /\ \A i \in 1..3 : fieldOk(parts[i])
        THEN LET h == DecValue(parts[1])
                 m == DecValue(parts[2])
                 s == DecValue(parts[3])
             IN  IF h <= 23 /\ m <= 59 /\ s <= 59
                 THEN [ok |-> TRUE, secs |-> h * 3600 + m * 60 + s]
                 ELSE [ok |-> FALSE, secs |-> 0]
        ELSE [ok |-> FALSE, secs |-> 0]

(* ------------------------------------------------------------ vocabulary *)
tok_time == <<"t", "i", "m", "e">>
tok_CPU == <<"C", "P", "U">>
tok_all == <<"a", "l", "l">>

header ==
    << tok_time, tok_CPU,
       <<"%", "u", "s", "r">>, <<"%", "n", "i", "c", "e">>,
       <<"%", "s", "y", "s">>, <<"%", "i", "o", "w", "a", "i", "t">>,
       <<"%", "i", "r", "q">>, <<"%", "s", "o", "f", "t">>,
       <<"%", "s", "t", "e", "a", "l">>, <<"%", "g", "u", "e", "s", "t">>,
       <<"%", "g", "n", "i", "c", "e">>, <<"%", "i", "d", "l", "e">> >>

(* timestamps, series identifiers and %usr values of the sample captures *)
t235958 == <<"2", "3", ":", "5", "9", ":", "5", "8">>
t235959 == <<"2", "3", ":", "5", "9", ":", "5", "9">>
t000000 == <<"0", "0", ":", "0", "0", ":", "0", "0">>
t_bad == <<"0", "8", ":", "0", "0">>
cpu2 == <<"2">>
cpu10 == <<"1", "0">>
cpu_x == <<"x">>
usr5 == <<"5", ".", "0">>
usr6 == <<"6", ".", "0">>
zero == <<"0", ".", "0">>

(* a data line of mpstat: timestamp, CPU, %usr and the nine other metrics *)
Line(t, c, u) == <<t, c, u>> \o [i \in 1..(Len(header) - 3) |-> zero]

(* the column titles mpstat prints again before every interval *)
HeaderRepeat(t) == <<t>> \o Tail(header)

(* the lines a capture is made of.  Series identifiers are written as      *)
(* mpstat writes them (decimal without sign or leading zero); cpu_x, t_bad *)
(* and the short lines stand for a damaged capture.  No line has more than *)
(* Len(header) tokens.                                                     *)
LogLines ==
    { Line(t235958, tok_all, usr5),
      Line(t235959, tok_all, usr6),
      Line(t235959, cpu2, usr5),
      Line(t000000, cpu2, usr6),
      Line(t235958, cpu10, usr5),
      HeaderRepeat(t235959),
      Line(t235959, cpu_x, usr5),
      Line(t_bad, tok_all, usr5),
      SubSeq(Line(t235959, tok_all, usr5), 1, 8),
      <<t235959>>,
      Tail(header),
      <<<<"A", "v", "e", "r", "a", "g", "e", ":">>, tok_all, usr5>>,
      <<>> }

SeqsUpTo(S, n) == UNION {[1..k -> S] : k \in 0..n}

(* ------------------------------------------------------------------ files *)
NoFile == [exists |-> FALSE, rows |-> <<>>]
File(rows) == [exists |-> TRUE, rows |-> rows]

Running == 0 - 1

(* ---------------------------------------------------------- convert_to_csv *)
StartsWithCPU(line) ==
    /\ Len(line[1]) >= 3
    /\ SubSeq(line[1], 1, 3) = tok_CPU

(* line[0].isdigit() of the stripped line *)
Qualifies(line) == line # <<>> /\ line[1][1] \in Digits

(* variant: a line whose timestamp equals the previous line's is skipped *)
convert_rows_dedup(lines) ==
    LET keep(i) ==
            /\ Qualifies(lines[i])
            /\ ~(i > 1 /\ lines[i - 1] # <<>> /\ lines[i - 1][1] = lines[i][1])
        F[i \in 0..Len(lines)] ==
            IF i = 0 THEN <<>>
            ELSE IF keep(i) THEN F[i - 1] \o <<lines[i]>> ELSE F[i - 1]
    IN  F[Len(lines)]

RECURSIVE convert_rows(_)
convert_rows(lines) ==
    IF lines = <<>> THEN <<>>
    ELSE LET line == Head(lines)
             rest == convert_rows(Tail(lines))
         IN  IF line = <<>> \/ StartsWithCPU(line) THEN rest
             ELSE IF Qualifies(line)
                  THEN <<(<<line[1]>> \o Tail(line))>> \o rest
                  ELSE rest

convert_to_csv ==
    /\ pc = "convert_to_csv"
    /\ csv' = File(<<header>> \o convert_rows(log))
    /\ pc' = "remove_cpu_rows"
    /\ UNCHANGED <<log, exit_code, prev, plots>>

(* --------------------------------------------------------- remove_cpu_rows *)
IsHeaderRepeat(line) ==
    Len(line) > 1 /\ Strip(line[2]) = tok_CPU /\ Strip(line[1]) # tok_time

(* variant: rows are removed from the list being iterated, so the row after *)
(* a removed one is never examined                                         *)
RECURSIVE filtered_lines_skip(_)
filtered_lines_skip(lines) ==
    IF lines = <<>> THEN <<>>
    ELSE IF IsHeaderRepeat(Head(lines))
         THEN IF Len(lines) >= 2
              THEN <<lines[2]>> \o filtered_lines_skip(SubSeq(lines, 3, Len(lines)))
              ELSE <<>>
    ELSE <<Head(lines)>> \o filtered_lines_skip(Tail(lines))

RECURSIVE filtered_lines(_)
filtered_lines(lines) ==
    IF lines = <<>> THEN <<>>
    ELSE IF IsHeaderRepeat(Head(lines)) THEN filtered_lines(Tail(lines))
    ELSE <<Head(lines)>> \o filtered_lines(Tail(lines))

remove_cpu_rows ==
    /\ pc = "remove_cpu_rows"
    /\ csv' = File(filtered_lines(csv.rows))
    /\ pc' = "sort_cpu_data"
    /\ UNCHANGED <<log, exit_code, prev, plots>>

(* ----------------------------------------------------------- sort_cpu_data *)
(* csv.DictReader: the first row names the fields, every later non-empty   *)
(* row becomes a dict over them, a missing field being None.  A dict is    *)
(* kept as the sequence of its values in field order.                      *)
DictRow(fieldnames, row) ==
    [i \in 1..Len(fieldnames) |-> IF i <= Len(row) THEN row[i] ELSE None]

RECURSIVE DictReader(_, _)
DictReader(fieldnames, rows) ==
    IF rows = <<>> THEN <<>>
    ELSE IF Head(rows) = <<>> THEN DictReader(fieldnames, Tail(rows))
    ELSE <<DictRow(fieldnames, Head(rows))>> \o DictReader(fieldnames, Tail(rows))

(* row['CPU'] *)
CpuCol == CHOOSE i \in 1..Len(header) : header[i] = tok_CPU
cpu_of(row) == row[CpuCol]

(* variant: key=lambda x: x['CPU'], the identifiers compared as text (here  *)
(* through the number read from the identifier padded on the right)        *)
sort_key_str(row) ==
    LET c == cpu_of(row)
    IN  DecValue([i \in 1..4 |-> IF i <= Len(c) /\ c[i] \in Digits THEN c[i] ELSE "0"])

(* key=lambda x: int(x['CPU']) *)
sort_key(row) == PyInt(cpu_of(row)).val

(* variant: an unstable sort, a row is placed before the rows of equal key *)
insert_sorted_unstable(sorted, r) ==
    LET k == Cardinality({i \in 1..Len(sorted) : PyInt(cpu_of(sorted[i])).val
                                                   < PyInt(cpu_of(r)).val})
    IN  SubSeq(sorted, 1, k) \o <<r>> \o SubSeq(sorted, k + 1, Len(sorted))

(* sorted(): stable, ascending by key *)
insert_sorted(sorted, r) ==
    LET k == Cardinality({i \in 1..Len(sorted) : sort_key(sorted[i]) <= sort_key(r)})
    IN  SubSeq(sorted, 1, k) \o <<r>> \o SubSeq(sorted, k + 1, Len(sorted))

RECURSIVE sorted_by_key(_)
sorted_by_key(rows) ==
    IF rows = <<>> THEN <<>>
    ELSE insert_sorted(sorted_by_key(SubSeq(rows, 1, Len(rows) - 1)), rows[Len(rows)])

sorted_rows(rows) ==
    LET all_row == SelectSeq(rows, LAMBDA row : cpu_of(row) = tok_all)
        other_rows == SelectSeq(rows, LAMBDA row : cpu_of(row) # tok_all)
    IN  all_row \o sorted_by_key(other_rows)

(* variant: fieldnames=reader.fieldnames, which needs no first row *)
writer_fieldnames_of_reader(fieldnames, sorted) == [ok |-> TRUE, names |-> fieldnames]

(* fieldnames = sorted_rows[0].keys(): IndexError when there is no row *)
writer_fieldnames(fieldnames, sorted) ==
    IF sorted = <<>> THEN [ok |-> FALSE, names |-> <<>>]
    ELSE [ok |-> TRUE, names |-> fieldnames]

(* csv.DictWriter writes None as the empty field *)
WriteDictRow(row) == [i \in 1..Len(row) |-> IF row[i] = None THEN <<>> ELSE row[i]]

(* the outcome of sort_cpu_data on the file at the output path:            *)
(*  - int() raises on a non-integer CPU before the file is reopened, the   *)
(*    file is left as it was;                                              *)
(*  - with no data row, sorted_rows[0] raises after open(..., 'w') has     *)
(*    truncated the file.                                                  *)
sort_outcome(file) ==
    LET fieldnames == Head(file.rows)
        rows == DictReader(fieldnames, Tail(file.rows))
        other_rows == SelectSeq(rows, LAMBDA row : cpu_of(row) # tok_all)
    IN  IF file.rows = <<>>
        THEN [ok |-> FALSE, file |-> File(<<>>)]
        ELSE IF \E i \in 1..Len(other_rows) : ~PyInt(cpu_of(other_rows[i])).ok
        THEN [ok |-> FALSE, file |-> file]
        ELSE LET fn == writer_fieldnames(fieldnames, sorted_rows(rows))
             IN  IF ~fn.ok
                 THEN [ok |-> FALSE, file |-> File(<<>>)]
                 ELSE [ok |-> TRUE,
                       file |-> File(<<fn.names>> \o
                                     [i \in 1..Len(rows) |->
                                          WriteDictRow(sorted_rows(rows)[i])])]

sort_cpu_data ==
    /\ pc = "sort_cpu_data"
    /\ LET out == sort_outcome(csv)
       IN  /\ csv' = out.file
           /\ pc' = IF out.ok THEN "process_file" ELSE "failed"
           /\ exit_code' = IF out.ok THEN exit_code ELSE 1
    /\ UNCHANGED <<log, prev, plots>>

(* ------------------------------------------------------------ process_file *)
(* the keys of grouped_data, in insertion order *)
RECURSIVE first_seen(_)
first_seen(ids) ==
    IF ids = <<>> THEN <<>>
    ELSE LET front == first_seen(SubSeq(ids, 1, Len(ids) - 1))
             id == ids[Len(ids)]
         IN  IF \E i \in 1..Len(front) : front[i] = id THEN front
             ELSE front \o <<id>>

(* variant: one start time for the whole file, that of its first row *)
start_time_global(data, cpu) == strptime(data[1][1]).secs

(* grouped_data[cpu]['start_time']: the time of the first row of that CPU *)
start_time(data, cpu) ==
    LET i == CHOOSE j \in 1..Len(data) :
                 /\ data[j][2] = cpu
                 /\ \A k \in 1..(j - 1) : data[k][2] # cpu
    IN  strptime(data[i][1]).secs

(* variant: the operands of the subtraction exchanged *)
time_diff_swapped(time_obj, start) == start - time_obj

(* (time_obj - start_time).total_seconds() *)
time_diff(time_obj, start) == time_obj - start

(* the row as appended to its group: row[0] = str(int(time_diff)) *)
regrouped_row(data, i) ==
    LET row == data[i]
        t == time_diff(strptime(row[1]).secs, start_time(data, row[2]))
    IN  <<IntToStr(t)>> \o Tail(row)

RECURSIVE write_groups(_, _)
write_groups(rows, cpus) ==
    IF cpus = <<>> THEN <<>>
    ELSE SelectSeq(rows, LAMBDA row : row[2] = Head(cpus)) \o write_groups(rows, Tail(cpus))

(* the outcome of process_file: next(reader) raises on an empty file,      *)
(* row[1] on a one-field row, strptime on an unparsable time; each before  *)
(* the file is reopened for writing.                                       *)
process_outcome(file) ==
    LET data == Tail(file.rows)
    IN  IF file.rows = <<>>
        THEN [ok |-> FALSE, file |-> file]
        ELSE IF \E i \in 1..Len(data) : Len(data[i]) < 2 \/ ~strptime(data[i][1]).ok
        THEN [ok |-> FALSE, file |-> file]
        ELSE LET hdr == <<tok_time>> \o Tail(Head(file.rows))
                 rows == [i \in 1..Len(data) |-> regrouped_row(data, i)]
                 cpus == first_seen([i \in 1..Len(data) |-> data[i][2]])
             IN  [ok |-> TRUE, file |-> File(<<hdr>> \o write_groups(rows, cpus))]

process_file ==
    /\ pc = "process_file"
    /\ LET out == process_outcome(csv)
       IN  /\ csv' = out.file
           /\ pc' = IF out.ok THEN "done" ELSE "failed"
           /\ exit_code' = IF out.ok THEN 0 ELSE 1
    /\ UNCHANGED <<log, prev, plots>>

(* ------------------------------------------------------------ the pipeline *)
(* pmpstat.py's main after measure_cpu_usage has written the log: the four *)
(* stages run in order on the same path; a stage that fails calls          *)
(* sys.exit(1).                                                            *)
Init ==
    /\ log \in SeqsUpTo(LogLines, MaxLines)
    /\ csv = NoFile
    /\ pc = "convert_to_csv"
    /\ exit_code = Running
    /\ prev = <<>>
    /\ plots = <<>>

Next ==
    \/ convert_to_csv
    \/ remove_cpu_rows
    \/ sort_cpu_data
    \/ process_file

Spec == Init /\ [][Next]_vars

(* ------------------------------------------- remove_cpu_rows, run on its own *)
(* remove_cpu_rows(f, f) applied twice to a CSV file of any rows: padded    *)
(* fields, short rows and blank rows included.  prev keeps the contents of  *)
(* the file before each pass.                                               *)
tok_time_padded == <<" ", "t", "i", "m", "e">>
tok_CPU_padded == <<" ", "C", "P", "U", " ">>

NormRows ==
    { header,
      <<tok_time_padded, tok_CPU_padded>>,
      HeaderRepeat(t235959),
      <<t235959, tok_CPU_padded, usr5>>,
      Line(t235959, tok_all, usr5),
      <<t235959>>,
      <<>> }

rerun_remove_cpu_rows ==
    /\ pc \in {"normalize", "normalize_again"}
    /\ csv' = File(filtered_lines(csv.rows))
    /\ prev' = Append(prev, csv)
    /\ pc' = IF pc = "normalize" THEN "normalize_again" ELSE "normalized"
    /\ UNCHANGED <<log, exit_code, plots>>

InitNorm ==
    /\ log = <<>>
    /\ csv \in {File(rows) : rows \in SeqsUpTo(NormRows, MaxNormRows)}
    /\ pc = "normalize"
    /\ exit_code = Running
    /\ prev = <<>>
    /\ plots = <<>>

NextNorm == rerun_remove_cpu_rows

SpecNorm == InitNorm /\ [][NextNorm]_vars

(* -------------------------------------------- pic.py, generate_cpu_usage_graph *)
tok_0 == <<"0">>
tok_1 == <<"1">>
tok_2 == <<"2">>

(* the tables the pipeline writes: header, then the series one after the   *)
(* other, 'all' before the numbered ones, each starting at time 0          *)
GraphRows == {Line(t, c, u) : t \in {tok_0, tok_1, tok_2}, c \in {tok_all, cpu2},
                              u \in {usr5, usr6}}

IsPipelineTable(rows) ==
    /\ \A i \in 1..Len(rows) :
           (\A k \in 1..(i - 1) : rows[k][2] # rows[i][2]) => rows[i][1] = tok_0
    /\ \A i, j \in 1..Len(rows) :
           i < j =>
               /\ rows[j][2] = tok_all => rows[i][2] = tok_all
               /\ rows[i][2] = rows[j][2] =>
                      \A k \in i..j : rows[k][2] = rows[i][2]

(* times: a row's time is appended unless it equals the last one appended *)
RECURSIVE times_of(_)
times_of(rows) ==
    IF rows = <<>> THEN <<>>
    ELSE LET front == times_of(SubSeq(rows, 1, Len(rows) - 1))
             time == PyInt(rows[Len(rows)][1]).val
         IN  IF Len(front) = 0 \/ front[Len(front)] # time
             THEN Append(front, time)
             ELSE front

(* cpu_data[cpu]: the %usr of the rows of that CPU, in file order *)
usage_of(rows, cpu) ==
    LET own == SelectSeq(rows, LAMBDA row : row[2] = cpu)
    IN  [i \in 1..Len(own) |-> PyFloat(own[i][3])]

(* times[:len(usage)] *)
slice_to(times, n) == SubSeq(times, 1, IF n < Len(times) THEN n ELSE Len(times))

(* plt.plot(x, y) raises ValueError when x and y differ in length; the     *)
(* lines drawn are those of the CPUs before the first such CPU             *)
RECURSIVE plot_all(_, _, _)
plot_all(rows, times, cpus) ==
    IF cpus = <<>> THEN [ok |-> TRUE, lines |-> <<>>]
    ELSE LET usage == usage_of(rows, Head(cpus))
             x == slice_to(times, Len(usage))
         IN  IF Len(x) # Len(usage)
             THEN [ok |-> FALSE, lines |-> <<>>]
             ELSE LET rest == plot_all(rows, times, Tail(cpus))
                  IN  [ok |-> rest.ok,
                       lines |-> <<[cpu |-> Head(cpus), x |-> x, y |-> usage]>>
                                     \o rest.lines]

(* an empty table makes max(times) raise at plt.xticks; any exception ends *)
(* the script before savefig                                               *)
generate_cpu_usage_graph ==
    /\ pc = "generate_cpu_usage_graph"
    /\ LET rows == Tail(csv.rows)
           times == times_of(rows)
           cpus == first_seen([i \in 1..Len(rows) |-> rows[i][2]])
           out == plot_all(rows, times, cpus)
           ok == out.ok /\ times # <<>>
       IN  /\ plots' = out.lines
           /\ pc' = IF ok THEN "saved" ELSE "plot_error"
           /\ exit_code' = IF ok THEN 0 ELSE 1
    /\ UNCHANGED <<log, csv, prev>>

InitGraph ==
    /\ log = <<>>
    /\ csv \in {File(<<header>> \o rows) :
                    rows \in {r \in SeqsUpTo(GraphRows, MaxTableRows) : IsPipelineTable(r)}}
    /\ pc = "generate_cpu_usage_graph"
    /\ exit_code = Running
    /\ prev = <<>>
    /\ plots = <<>>

NextGraph == generate_cpu_usage_graph

SpecGraph == InitGraph /\ [][NextGraph]_vars

(* ================================================================ claims *)
(* what the claims speak of, read off the capture and the final table *)
BeginsWithDigit(line) == Len(line) > 0 /\ Len(line[1]) > 0 /\ line[1][1] \in Digits
IsRepeat(line) == BeginsWithDigit(line) /\ Len(line) >= 2 /\ line[2] = tok_CPU
DataLines == SelectSeq(log, LAMBDA l : BeginsWithDigit(l) /\ ~IsRepeat(l))
FinalRows == Tail(csv.rows)
SeriesIds == {FinalRows[i][2] : i \in 1..Len(FinalRows)}
SeriesRows(c) == SelectSeq(FinalRows, LAMBDA row : row[2] = c)
SeriesLines(c) == SelectSeq(DataLines, LAMBDA l : Len(l) >= 2 /\ l[2] = c)
Count(seq, P(_)) == Cardinality({i \in 1..Len(seq) : P(seq[i])})

(* C1: in the table of a successful run, the first row of every series has *)
(* time 0.                                                                 *)
C1_FirstElapsedIsZero ==
    pc = "done" =>
        \A i \in 1..Len(FinalRows) :
            (\A k \in 1..(i - 1) : FinalRows[k][2] # FinalRows[i][2])
                => FinalRows[i][1] = tok_0

(* two series whose first samples carry different timestamps *)
C1_Witness ==
    /\ pc = "done"
    /\ \E c, d \in SeriesIds :
           /\ c # d
           /\ SeriesLines(c)[1][1] # SeriesLines(d)[1][1]
           /\ SeriesRows(c)[1][1] = tok_0
           /\ SeriesRows(d)[1][1] = tok_0

(* C2: in the final table the rows of 'all' precede every numbered row and *)
(* the numbered series are contiguous blocks in strictly ascending order   *)
(* of the integer value of their identifier.                               *)
C2_SortOrder ==
    pc = "done" =>
        \A i, j \in 1..Len(FinalRows) :
            i < j =>
                LET a == FinalRows[i][2]
                    b == FinalRows[j][2]
                IN  /\ b = tok_all => a = tok_all
                    /\ a = b => \A k \in i..j : FinalRows[k][2] = a
                    /\ (a # tok_all /\ b # tok_all /\ a # b) =>
                           /\ PyInt(a).ok /\ PyInt(b).ok
                           /\ PyInt(a).val < PyInt(b).val

(* a capture in which CPU 10 arrives before CPU 2 and both before 'all' *)
C2_Witness ==
    /\ pc = "done"
    /\ Len(DataLines) = 3
    /\ DataLines[1][2] = cpu10
    /\ DataLines[2][2] = cpu2
    /\ DataLines[3][2] = tok_all
    /\ FinalRows[1][2] = tok_all
    /\ FinalRows[2][2] = cpu2
    /\ FinalRows[3][2] = cpu10

(* the elapsed times of a series and the clock times they were computed    *)
(* from, both in arrival order                                             *)
Elapsed(c) == [i \in 1..Len(SeriesRows(c)) |-> PyInt(SeriesRows(c)[i][1]).val]
Clock(c) == [i \in 1..Len(SeriesLines(c)) |-> strptime(SeriesLines(c)[i][1]).secs]

(* C3, as claimed: the elapsed times of every series are non-decreasing in *)
(* arrival order, whatever HH:MM:SS timestamps the capture supplies.       *)
C3_ElapsedNonDecreasing ==
    pc = "done" =>
        \A c \in SeriesIds :
            \A i, j \in 1..Len(Elapsed(c)) : i < j => Elapsed(c)[i] <= Elapsed(c)[j]

(* C3, amended: two rows of a series whose timestamps do not decrease in   *)
(* arrival order have elapsed times that do not decrease; every elapsed    *)
(* time is the row's timestamp minus that of the series' first row.        *)
C3_ElapsedFollowsClock ==
    pc = "done" =>
        \A c \in SeriesIds :
            /\ Len(Elapsed(c)) = Len(Clock(c))
            /\ \A i, j \in 1..Len(Elapsed(c)) :
                   (i < j /\ Clock(c)[i] <= Clock(c)[j])
                       => Elapsed(c)[i] <= Elapsed(c)[j]

(* a series sampled at 23:59:58 and 23:59:59 *)
C3_Witness ==
    /\ pc = "done"
    /\ \E c \in SeriesIds :
           /\ Len(Clock(c)) >= 2
           /\ Clock(c)[1] < Clock(c)[2]
           /\ Elapsed(c)[1] = 0
           /\ Elapsed(c)[2] = 1

(* C4: the final table has one data row for every line beginning with a   *)
(* digit that is not a header repeat, none lost and none added, samples    *)
(* sharing a timestamp included.                                           *)
C4_RowCount ==
    pc = "done" =>
        /\ Len(FinalRows) = Count(log, BeginsWithDigit) - Count(log, IsRepeat)
        /\ \A k \in 1..Len(DataLines) :
               LET same(r) == r[2] = DataLines[k][2] /\ r[3] = DataLines[k][3]
               IN  Count(FinalRows, same) = Count(DataLines, same)

(* a header repeat between two samples of the same second *)
C4_Witness ==
    /\ pc = "done"
    /\ Len(log) = 3
    /\ BeginsWithDigit(log[1]) /\ ~IsRepeat(log[1])
    /\ IsRepeat(log[2])
    /\ BeginsWithDigit(log[3]) /\ ~IsRepeat(log[3])
    /\ log[1][1] = log[3][1]
    /\ Len(FinalRows) = 2

(* C5: remove_cpu_rows applied to its own output changes nothing, and no   *)
(* pass removes a true header row (time field 'time', series field 'CPU'). *)
IsTrueHeader(row) == Len(row) > 1 /\ row[1] = tok_time /\ row[2] = tok_CPU

C5_NormalizerIdempotent ==
    /\ pc = "normalized" => csv = prev[2]
    /\ pc \in {"normalize_again", "normalized"} =>
           Count(csv.rows, IsTrueHeader) = Count(prev[Len(prev)].rows, IsTrueHeader)

(* the first pass removed two header repeats in a row and kept the header *)
C5_Witness ==
    /\ pc = "normalized"
    /\ Len(prev[1].rows) = Len(csv.rows) + 2
    /\ Count(csv.rows, IsTrueHeader) = 1
    /\ \E i \in 1..(Len(prev[1].rows) - 1) :
           IsHeaderRepeat(prev[1].rows[i]) /\ IsHeaderRepeat(prev[1].rows[i + 1])

(* C6, as claimed: after a run that aborted, the output path holds nothing *)
(* or a valid final table (integer time in every data row).                *)
IsFinalTable(file) ==
    /\ file.rows # <<>>
    /\ \A i \in 2..Len(file.rows) :
           Len(file.rows[i]) = Len(header) /\ PyInt(file.rows[i][1]).ok

C6_NoPartialOutput ==
    pc = "failed" => (csv.rows = <<>> \/ IsFinalTable(csv))

(* C7, as claimed: a run over a capture with a line that begins with a     *)
(* digit and has fewer than 12 tokens does not complete.                   *)
HasShortLine == \E i \in 1..Len(log) : BeginsWithDigit(log[i]) /\ Len(log[i]) < Len(header)

C7_ShortLineAborts == HasShortLine => pc # "done"

(* C8: a capture without data line never yields a table: the run gets no   *)
(* further than sort_cpu_data and stops with exit code 1.                  *)
C8_EmptyInputFails ==
    DataLines = <<>> =>
        /\ pc \in {"convert_to_csv", "remove_cpu_rows", "sort_cpu_data", "failed"}
        /\ pc = "failed" => exit_code = 1

(* a capture of header repeats only, failed in sort_cpu_data *)
C8_Witness ==
    /\ pc = "failed"
    /\ exit_code = 1
    /\ DataLines = <<>>
    /\ Count(log, IsRepeat) >= 1

(* C9, as claimed: once generate_cpu_usage_graph has run, every series has *)
(* a plotted line whose i-th point is (time, %usr) of the series' i-th row.*)
C9_PointsPairRows ==
    pc \in {"saved", "plot_error"} =>
        \A c \in SeriesIds :
            \E p \in 1..Len(plots) :
                /\ plots[p].cpu = c
                /\ Len(plots[p].x) = Len(SeriesRows(c))
                /\ Len(plots[p].y) = Len(SeriesRows(c))
                /\ \A i \in 1..Len(SeriesRows(c)) :
                       /\ plots[p].x[i] = PyInt(SeriesRows(c)[i][1]).val
                       /\ plots[p].y[i] = PyFloat(SeriesRows(c)[i][3])

(* C10: the rows of a series stand in the final table in the order their   *)
(* lines arrived: apart from the time field, and the empty fields that     *)
(* complete a short line, the series' rows are the series' lines.          *)
Completed(line) ==
    [i \in 1..(Len(header) - 1) |-> IF i + 1 <= Len(line) THEN line[i + 1] ELSE <<>>]

C10_ArrivalOrderKept ==
    pc = "done" =>
        \A c \in SeriesIds :
            /\ Len(SeriesRows(c)) = Len(SeriesLines(c))
            /\ \A i \in 1..Len(SeriesRows(c)) :
                   Tail(SeriesRows(c)[i]) = Completed(SeriesLines(c)[i])

(* two different samples of a numbered CPU with another series in between *)
C10_Witness ==
    /\ pc = "done"
    /\ Len(DataLines) = 3
    /\ DataLines[1][2] = cpu2
    /\ DataLines[3][2] = cpu2
    /\ DataLines[2][2] # cpu2
    /\ DataLines[1][3] # DataLines[3][3]
    /\ SeriesRows(cpu2)[1][3] = DataLines[1][3]
    /\ SeriesRows(cpu2)[2][3] = DataLines[3][3]

====
